---- MODULE Spec2Model ----
(***************************************************************************)
(* Model of cloud/amazon/cloudformation.py: the fact fetcher              *)
(* (get_stack_facts), the event collector (get_stack_events), the polling  *)
(* loop (stack_operation), the retry helper                                *)
(* (invoke_with_throttling_retries) and the orchestrator (main).           *)
(*                                                                         *)
(* Python strings are sequences of atoms: a word, " ", "_", ":" or ".".    *)
(* str.endswith is a suffix test and `x in s` a contiguous-subsequence     *)
(* test on these sequences. A Python dict is a function from keys to       *)
(* values; None is the record NoneVal.                                     *)
(***************************************************************************)
EXTENDS Integers, Sequences, FiniteSets, TLC

VARIABLES
    pc,          \* position of main: main_facts, create, update, poll, sleep, post, absent, exit, done
    state,       \* module.params['state']
    stack_info,  \* main, line 395
    stack,       \* main, lines 433 and 456
    result,      \* main, line 387
    operation,   \* stack_operation's operation argument
    existed,     \* stack_operation, line 244
    observed,    \* what each get_stack_facts call of stack_operation saw, in order
    fetches,     \* number of get_stack_facts calls made by stack_operation
    sleeps,      \* number of time.sleep(5) calls made by stack_operation
    ended,       \* how stack_operation ended: not yet, with a return value, with an exception
    slept,       \* total time slept by stack_operation
    submitted,   \* mutating remote calls that were accepted, in order
    listed,      \* whether cfn.list_stack_resources was called
    exit,        \* how main ended
    remote,      \* the remote stack's state, where a specification follows it
    evIn,        \* the describe_stack_events outcome handed to get_stack_events
    evOut,       \* what get_stack_events did with evIn
    factsIn,     \* the describe_stacks outcome handed to get_stack_facts
    factsOut,    \* what get_stack_facts did with factsIn
    rScript,     \* outcomes of function_ref, attempt by attempt
    rPc,         \* position of invoke_with_throttling_retries
    retries,     \* invoke_with_throttling_retries, line 314
    rAttempts,   \* number of calls of function_ref
    rSleeps,     \* number of time.sleep calls of invoke_with_throttling_retries
    rOut         \* what invoke_with_throttling_retries returned or raised

vars == <<pc, state, stack_info, stack, result, operation, existed,
          observed, fetches, sleeps, ended, slept, submitted, listed, exit,
          remote,
          evIn, evOut, factsIn, factsOut,
          rScript, rPc, retries, rAttempts, rSleeps, rOut>>

mainVars == <<pc, state, stack_info, stack, result, operation, existed,
              observed, fetches, sleeps, ended, slept, submitted, listed, exit,
              remote>>
evVars == <<evIn, evOut>>
factsVars == <<factsIn, factsOut>>
retryVars == <<rScript, rPc, retries, rAttempts, rSleeps, rOut>>

-----------------------------------------------------------------------------
(* Bounds *)

MaxPolls == 3
MaxPollEvents == 1
MaxEvents == 3
MaxOutputs == 1
MaxResources == 1
MaxScript == 3
MaxStacks == 2

(* Program constants *)

POLL_INTERVAL == 5
MAX_RETRIES == 3

-----------------------------------------------------------------------------
(* Strings and dicts *)

SP == " "
U == "_"

NoneVal == [none |-> TRUE]
EmptyDict == [k \in {} |-> TRUE]

Falsy(x) == x = NoneVal \/ DOMAIN x = {}

EndsWith(s, suffix) ==
    /\ Len(s) >= Len(suffix)
    /\ SubSeq(s, Len(s) - Len(suffix) + 1, Len(s)) = suffix

Contains(needle, hay) ==
    \E i \in 0..(Len(hay) - Len(needle)) : SubSeq(hay, i + 1, i + Len(needle)) = needle

InList(x, list) == \E i \in 1..Len(list) : list[i] = x

DictUpdate(d, u) ==
    [k \in DOMAIN d \cup DOMAIN u |-> IF k \in DOMAIN u THEN u[k] ELSE d[k]]

DictGet(d, k, default) == IF k \in DOMAIN d THEN d[k] ELSE default

Return(v) == [ok |-> TRUE, val |-> v]
Raise(c, m) == [ok |-> FALSE, err |-> [cls |-> c, message |-> m]]

SeqsUpTo(S, n) == UNION {[1..k -> S] : k \in 0..n}

-----------------------------------------------------------------------------
(* Stack statuses of the remote control plane *)

CREATE_IN_PROGRESS == <<"CREATE", U, "IN", U, "PROGRESS">>
CREATE_COMPLETE == <<"CREATE", U, "COMPLETE">>
CREATE_FAILED == <<"CREATE", U, "FAILED">>
ROLLBACK_COMPLETE == <<"ROLLBACK", U, "COMPLETE">>
ROLLBACK_FAILED == <<"ROLLBACK", U, "FAILED">>
UPDATE_COMPLETE == <<"UPDATE", U, "COMPLETE">>
UPDATE_ROLLBACK_IN_PROGRESS == <<"UPDATE", U, "ROLLBACK", U, "IN", U, "PROGRESS">>
UPDATE_ROLLBACK_COMPLETE == <<"UPDATE", U, "ROLLBACK", U, "COMPLETE">>
UPDATE_ROLLBACK_FAILED == <<"UPDATE", U, "ROLLBACK", U, "FAILED">>

StackStatuses ==
    { CREATE_IN_PROGRESS, CREATE_COMPLETE, CREATE_FAILED,
      ROLLBACK_COMPLETE, ROLLBACK_FAILED,
      UPDATE_ROLLBACK_IN_PROGRESS, UPDATE_ROLLBACK_COMPLETE, UPDATE_ROLLBACK_FAILED }

Absent == <<"ABSENT">>
Untracked == <<"UNTRACKED">>
FetchError(cls) == <<"ERROR", cls>>

\* The states the remote stack can be in when a call reaches the control
\* plane. The control plane and its other clients move the stack on between
\* any two calls of this program, so each call draws the state anew.
RemoteStates == StackStatuses \cup {Absent}

Operations == {"CREATE", "UPDATE", "DELETE"}

-----------------------------------------------------------------------------
(* Errors of the remote client *)

NotExistMsg == <<"Stack", SP, "with", SP, "id", SP, "s", SP, "does", SP, "not", SP, "exist">>
ThrottlingMsg == <<"Rate", SP, "exceeded">>
AccessDeniedMsg == <<"User", SP, "is", SP, "not", SP, "authorized">>
InvalidParamMsg == <<"Invalid", SP, "value", SP, "for", SP, "param">>
EndpointMsg == <<"Could", SP, "not", SP, "connect", SP, "to", SP, "the", SP, "endpoint", SP, "URL">>
NoUpdatesMsg == <<"No", SP, "updates", SP, "are", SP, "to", SP, "be", SP, "performed.">>
AlreadyExistsMsg == <<"Stack", SP, "s", SP, "already", SP, "exists">>
IndexErrorMsg == <<"list", SP, "index", SP, "out", SP, "of", SP, "range">>

\* Failures any remote call can end with, whatever the stack's state: a
\* permission denial, a parameter the client rejects, an unreachable endpoint.
Faults ==
    { Raise("ClientError", AccessDeniedMsg),
      Raise("ValidationError", InvalidParamMsg),
      Raise("EndpointConnectionError", EndpointMsg) }

RemoteErrorClasses == {"ClientError", "ValidationError", "EndpointConnectionError"}

boto_exception(err) ==
    err.message \o <<SP>> \o err.message \o <<SP, "-", SP>> \o <<err.cls>>

-----------------------------------------------------------------------------
(* The remote calls: what each can answer in a given state of the stack *)

\* The i-th output of the stack's template; output keys are unique.
Output(i) == [OutputKey |-> <<"k", i>>, OutputValue |-> <<"v", i>>]

OutputLists == { [i \in 1..n |-> Output(i)] : n \in 0..MaxOutputs }

\* A stack record of a describe_stacks response; the remote omits the
\* Outputs key of a stack that has no outputs.
StackRecord(status, outs) ==
    IF outs = <<>>
    THEN [StackStatus |-> status]
    ELSE [StackStatus |-> status, Outputs |-> outs]

\* describe_stacks, after the AWSRetry decorator has done its retries.
describe_stacks(r) ==
    Faults \cup
    (IF r = Absent
     THEN { Raise("ClientError", NotExistMsg), Return([Stacks |-> <<>>]) }
     ELSE { Return([Stacks |-> <<StackRecord(r, outs)>>]) : outs \in OutputLists })

Reason1 == <<"Resource", SP, "creation", SP, "cancelled">>
Reason2 == <<"Limit", SP, "exceeded">>

Event1 ==
    [ResourceType |-> "AWS::CloudFormation::Stack", LogicalResourceId |-> "s",
     ResourceStatus |-> UPDATE_COMPLETE]
Event2 ==
    [ResourceType |-> "AWS::EC2::SecurityGroup", LogicalResourceId |-> "CFTestSg",
     ResourceStatus |-> CREATE_FAILED, ResourceStatusReason |-> Reason1]
Event3 ==
    [ResourceType |-> "AWS::EC2::Instance", LogicalResourceId |-> "Web",
     ResourceStatus |-> UPDATE_ROLLBACK_FAILED, ResourceStatusReason |-> Reason2]
Event4 ==
    [ResourceType |-> "AWS::EC2::Instance", LogicalResourceId |-> "Web",
     ResourceStatus |-> CREATE_IN_PROGRESS]

EventPool == {Event1, Event2, Event3, Event4}
PollEventPool == {Event2}

\* cfn.describe_stack_events: the event timeline, a 'does not exist' error
\* or a fault. The timeline does not follow from the stack's status, and the
\* stack can change between two calls, so every answer is possible at any time.
describe_stack_events(pool, n) ==
    Faults \cup {Raise("ClientError", NotExistMsg)}
           \cup { Return([StackEvents |-> evs]) : evs \in SeqsUpTo(pool, n) }

\* The i-th resource of the stack; the remote gives a reason only with a
\* failure status.
Resource(i) ==
    IF i % 2 = 1
    THEN [LogicalResourceId |-> <<"res", i>>, PhysicalResourceId |-> <<"phys", i>>,
          ResourceType |-> "AWS::EC2::SecurityGroup", LastUpdatedTimestamp |-> <<"t", i>>,
          ResourceStatus |-> UPDATE_COMPLETE]
    ELSE [LogicalResourceId |-> <<"res", i>>, PhysicalResourceId |-> <<"phys", i>>,
          ResourceType |-> "AWS::EC2::Instance", LastUpdatedTimestamp |-> <<"t", i>>,
          ResourceStatus |-> CREATE_FAILED, ResourceStatusReason |-> Reason1]

ResourceLists == { [i \in 1..n |-> Resource(i)] : n \in 0..MaxResources }

\* Every answer describe_stacks can give to a pass of the polling loop.
DescribeStacksAnswers == UNION { describe_stacks(r) : r \in RemoteStates }

\* The answers describe_stacks gives to main, which reads from them only
\* whether the stack exists and what its outputs are.
RestStates == {Absent, CREATE_COMPLETE}
MainDescribeStacksAnswers == UNION { describe_stacks(r) : r \in RestStates }

list_stack_resources(r) ==
    Faults \cup
    (IF r = Absent
     THEN { Raise("ClientError", NotExistMsg) }
     ELSE { Return([StackResourceSummaries |-> rs]) : rs \in ResourceLists })

create_stack(r) ==
    Faults \cup (IF r = Absent THEN {Return(NoneVal)} ELSE {Raise("ClientError", AlreadyExistsMsg)})

update_stack(r) ==
    Faults \cup
    (IF r = Absent
     THEN {Raise("ClientError", NotExistMsg)}
     ELSE {Return(NoneVal), Raise("ClientError", NoUpdatesMsg)})

delete_stack(r) == Faults \cup {Return(NoneVal)}

ListStackResourcesAnswers == UNION { list_stack_resources(r) : r \in RemoteStates }
CreateStackAnswers == UNION { create_stack(r) : r \in RemoteStates }
UpdateStackAnswers == UNION { update_stack(r) : r \in RemoteStates }
DeleteStackAnswers == UNION { delete_stack(r) : r \in RemoteStates }

-----------------------------------------------------------------------------
(* get_stack_facts, lines 290-309 *)

DoesNotExist == <<"does", SP, "not", SP, "exist">>

CaughtClasses == {"ValidationError", "ClientError"}

\* get_stack_facts with every caught error turned into None.
get_stack_facts_swallow(o) ==
    IF ~o.ok
    THEN IF o.err.cls \in CaughtClasses THEN Return(NoneVal) ELSE o
    ELSE IF Len(o.val.Stacks) = 0
         THEN Raise("IndexError", IndexErrorMsg)
         ELSE Return(o.val.Stacks[1])

\* o is the outcome of describe_stacks. The result is Return(stack_info),
\* Return(NoneVal) or the exception that leaves the function.
get_stack_facts(o) ==
    IF ~o.ok
    THEN IF o.err.cls \in CaughtClasses
         THEN IF Contains(DoesNotExist, boto_exception(o.err))
              THEN Return(NoneVal)
              ELSE o
         ELSE o
    ELSE IF Len(o.val.Stacks) = 0
         THEN Raise("IndexError", IndexErrorMsg)
         ELSE Return(o.val.Stacks[1])

-----------------------------------------------------------------------------
(* get_stack_events, lines 217-240 *)

eventline(e) ==
    <<"StackEvent", SP, e.ResourceType, SP, e.LogicalResourceId, SP>> \o e.ResourceStatus

failline(e) ==
    <<e.ResourceType, SP, e.LogicalResourceId, SP>> \o e.ResourceStatus
        \o <<":", SP>> \o e.ResourceStatusReason

FAILED == <<"FAILED">>

\* EventFailed comparing the whole status with CREATE_FAILED.
EventFailed_create_only(e) == e.ResourceStatus = CREATE_FAILED

EventFailed(e) == EndsWith(e.ResourceStatus, FAILED)

RECURSIVE EventLoop(_, _, _)
\* The for loop of lines 232-238 from event i on, ret being the dict so far.
EventLoop(events, i, ret) ==
    IF i > Len(events)
    THEN ret
    ELSE LET e == events[i]
             withLine == [ret EXCEPT !.events = Append(@, eventline(e))]
         IN  EventLoop(events, i + 1,
                 IF EventFailed(e)
                 THEN [withLine EXCEPT !.log = Append(@, failline(e))]
                 ELSE withLine)

StackDoesNotExistLog == <<"Stack", SP, "does", SP, "not", SP, "exist.">>
UnknownErrorPrefix == <<"Unknown", SP, "error:", SP>>

\* get_stack_events raising a 'does not exist' error instead of logging it.
get_stack_events_raise_missing(o) ==
    LET ret == [events |-> <<>>, log |-> <<>>]
    IN  IF ~o.ok
        THEN IF o.err.cls \in CaughtClasses
             THEN IF Contains(DoesNotExist, boto_exception(o.err))
                  THEN o
                  ELSE Return([ret EXCEPT !.log =
                                  Append(@, UnknownErrorPrefix \o boto_exception(o.err))])
             ELSE o
        ELSE Return(EventLoop(DictGet(o.val, "StackEvents", <<>>), 1, ret))

\* o is the outcome of cfn.describe_stack_events.
get_stack_events(o) ==
    LET ret == [events |-> <<>>, log |-> <<>>]
    IN  IF ~o.ok
        THEN IF o.err.cls \in CaughtClasses
             THEN IF Contains(DoesNotExist, boto_exception(o.err))
                  THEN Return([ret EXCEPT !.log = Append(@, StackDoesNotExistLog)])
                  ELSE Return([ret EXCEPT !.log =
                                  Append(@, UnknownErrorPrefix \o boto_exception(o.err))])
             ELSE o
        ELSE Return(EventLoop(DictGet(o.val, "StackEvents", <<>>), 1, ret))

-----------------------------------------------------------------------------
(* stack_operation, lines 242-284: one pass of the while loop *)

ROLLBACK_COMPLETE_SUFFIX == <<U, "ROLLBACK", U, "COMPLETE">>
COMPLETE_SUFFIX == <<U, "COMPLETE">>
ROLLBACK_FAILED_SUFFIX == <<U, "ROLLBACK", U, "FAILED">>
FAILED_SUFFIX == <<U, "FAILED">>

StackDeleted == <<"Stack", SP, "Deleted">>
StackNotFoundRaised == <<"Stack", SP, "Not", SP, "Found">>
StackNotFound == <<"Stack", SP, "not", SP, "found.">>
RollbackCompleteMsg(op) ==
    <<"Problem", SP, "with", SP, op, ".", SP, "Rollback", SP, "complete">>
CompleteMsg(op) == <<"Stack", SP, op, SP, "complete">>
RollbackFailedMsg(op) == <<"Stack", SP, op, SP, "rollback", SP, "failed">>
FailedMsg(op) == <<"Stack", SP, op, SP, "failed">>

Returned(ret) == [kind |-> "return", ret |-> ret]
Raised(err) == [kind |-> "raise", err |-> err]
Sleeping == [kind |-> "sleep"]

\* classify with _COMPLETE tested before _ROLLBACK_COMPLETE.
classify_complete_first(st, op, ret) ==
    IF EndsWith(st.StackStatus, COMPLETE_SUFFIX)
    THEN Returned(DictUpdate(ret, [changed |-> TRUE, output |-> CompleteMsg(op)]))
    ELSE IF EndsWith(st.StackStatus, ROLLBACK_COMPLETE_SUFFIX)
    THEN Returned(DictUpdate(ret, [changed |-> TRUE, failed |-> TRUE,
                                   output |-> RollbackCompleteMsg(op)]))
    ELSE IF EndsWith(st.StackStatus, ROLLBACK_FAILED_SUFFIX)
    THEN Returned(DictUpdate(ret, [changed |-> TRUE, failed |-> TRUE,
                                   output |-> RollbackFailedMsg(op)]))
    ELSE IF EndsWith(st.StackStatus, FAILED_SUFFIX)
    THEN Returned(DictUpdate(ret, [changed |-> TRUE, failed |-> TRUE,
                                   output |-> FailedMsg(op)]))
    ELSE Sleeping

\* classify with _FAILED tested before _ROLLBACK_FAILED.
classify_failed_first(st, op, ret) ==
    IF EndsWith(st.StackStatus, ROLLBACK_COMPLETE_SUFFIX)
    THEN Returned(DictUpdate(ret, [changed |-> TRUE, failed |-> TRUE,
                                   output |-> RollbackCompleteMsg(op)]))
    ELSE IF EndsWith(st.StackStatus, COMPLETE_SUFFIX)
    THEN Returned(DictUpdate(ret, [changed |-> TRUE, output |-> CompleteMsg(op)]))
    ELSE IF EndsWith(st.StackStatus, FAILED_SUFFIX)
    THEN Returned(DictUpdate(ret, [changed |-> TRUE, failed |-> TRUE,
                                   output |-> FailedMsg(op)]))
    ELSE IF EndsWith(st.StackStatus, ROLLBACK_FAILED_SUFFIX)
    THEN Returned(DictUpdate(ret, [changed |-> TRUE, failed |-> TRUE,
                                   output |-> RollbackFailedMsg(op)]))
    ELSE Sleeping

\* classify taking only the operation's own <operation>_COMPLETE for complete.
classify_own_complete(st, op, ret) ==
    IF EndsWith(st.StackStatus, ROLLBACK_COMPLETE_SUFFIX)
    THEN Returned(DictUpdate(ret, [changed |-> TRUE, failed |-> TRUE,
                                   output |-> RollbackCompleteMsg(op)]))
    ELSE IF st.StackStatus = <<op>> \o COMPLETE_SUFFIX
    THEN Returned(DictUpdate(ret, [changed |-> TRUE, output |-> CompleteMsg(op)]))
    ELSE IF EndsWith(st.StackStatus, ROLLBACK_FAILED_SUFFIX)
    THEN Returned(DictUpdate(ret, [changed |-> TRUE, failed |-> TRUE,
                                   output |-> RollbackFailedMsg(op)]))
    ELSE IF EndsWith(st.StackStatus, FAILED_SUFFIX)
    THEN Returned(DictUpdate(ret, [changed |-> TRUE, failed |-> TRUE,
                                   output |-> FailedMsg(op)]))
    ELSE Sleeping

\* classify without the branch for _FAILED (lines 277-279).
classify_without_failed(st, op, ret) ==
    IF EndsWith(st.StackStatus, ROLLBACK_COMPLETE_SUFFIX)
    THEN Returned(DictUpdate(ret, [changed |-> TRUE, failed |-> TRUE,
                                   output |-> RollbackCompleteMsg(op)]))
    ELSE IF EndsWith(st.StackStatus, COMPLETE_SUFFIX)
    THEN Returned(DictUpdate(ret, [changed |-> TRUE, output |-> CompleteMsg(op)]))
    ELSE IF EndsWith(st.StackStatus, ROLLBACK_FAILED_SUFFIX)
    THEN Returned(DictUpdate(ret, [changed |-> TRUE, failed |-> TRUE,
                                   output |-> RollbackFailedMsg(op)]))
    ELSE Sleeping

\* The elif chain of lines 266-283 for a stack that was found; ret holds the
\* events and log of this pass.
classify(st, op, ret) ==
    IF EndsWith(st.StackStatus, ROLLBACK_COMPLETE_SUFFIX)
    THEN Returned(DictUpdate(ret, [changed |-> TRUE, failed |-> TRUE,
                                   output |-> RollbackCompleteMsg(op)]))
    ELSE IF EndsWith(st.StackStatus, COMPLETE_SUFFIX)
    THEN Returned(DictUpdate(ret, [changed |-> TRUE, output |-> CompleteMsg(op)]))
    ELSE IF EndsWith(st.StackStatus, ROLLBACK_FAILED_SUFFIX)
    THEN Returned(DictUpdate(ret, [changed |-> TRUE, failed |-> TRUE,
                                   output |-> RollbackFailedMsg(op)]))
    ELSE IF EndsWith(st.StackStatus, FAILED_SUFFIX)
    THEN Returned(DictUpdate(ret, [changed |-> TRUE, failed |-> TRUE,
                                   output |-> FailedMsg(op)]))
    ELSE Sleeping

\* deleted_or_not_found with its two branches swapped.
deleted_or_not_found_swapped(ex, op, ev, notFound) ==
    IF ~(InList("yes", ex) \/ op = "DELETE")
    THEN LET e == get_stack_events(ev)
         IN  IF ~e.ok
             THEN Raised(e.err)
             ELSE Returned(DictUpdate(e.val, [changed |-> TRUE, output |-> StackDeleted]))
    ELSE Returned(notFound)

\* deleted_or_not_found testing the operation alone, as if 'yes' were not
\* appended to existed before the test.
deleted_or_not_found_by_operation(ex, op, ev, notFound) ==
    IF op = "DELETE"
    THEN LET e == get_stack_events(ev)
         IN  IF ~e.ok
             THEN Raised(e.err)
             ELSE Returned(DictUpdate(e.val, [changed |-> TRUE, output |-> StackDeleted]))
    ELSE Returned(notFound)

\* Lines 251-256 and 259-265: the stack is gone. ev is the outcome of the
\* describe_stack_events call made inside the branch, ret the dict the
\* else branch updates.
deleted_or_not_found(ex, op, ev, notFound) ==
    IF InList("yes", ex) \/ op = "DELETE"
    THEN LET e == get_stack_events(ev)
         IN  IF ~e.ok
             THEN Raised(e.err)
             ELSE Returned(DictUpdate(e.val, [changed |-> TRUE, output |-> StackDeleted]))
    ELSE Returned(notFound)

\* One pass of the loop. facts is the outcome of describe_stacks, ev1 and ev2
\* those of the first and second describe_stack_events call of the pass, ex
\* the list `existed` before the pass. The result carries `existed` after it.
stack_operation(facts, ev1, ev2, ex, op) ==
    LET f == get_stack_facts(facts)
    IN  IF ~f.ok
        THEN [step |-> deleted_or_not_found(ex, op, ev1,
                           [changed |-> TRUE, output |-> StackNotFoundRaised]),
              existed |-> ex]
        ELSE LET ex2 == Append(ex, "yes")
                 e == get_stack_events(ev1)
             IN  [existed |-> ex2,
                  step |->
                    IF ~e.ok
                    THEN Raised(e.err)
                    ELSE IF Falsy(f.val)
                    THEN deleted_or_not_found(ex2, op, ev2,
                             DictUpdate(e.val, [changed |-> FALSE, failed |-> TRUE,
                                                output |-> StackNotFound]))
                    ELSE classify(f.val, op, e.val)]

\* What a get_stack_facts call of the loop saw: the status, Absent, or an error.
Observation(facts) ==
    LET f == get_stack_facts(facts)
    IN  IF ~f.ok THEN FetchError(f.err.cls)
        ELSE IF Falsy(f.val) THEN Absent
        ELSE f.val.StackStatus

-----------------------------------------------------------------------------
(* main, lines 326-465 *)

NotExited == [kind |-> "none"]
exit_json(args) == [kind |-> "exit_json", args |-> args]
fail_json(msg) == [kind |-> "fail_json", msg |-> msg]
Unhandled(err) == [kind |-> "exception", err |-> err]

NoUpdates == <<"No", SP, "updates", SP, "are", SP, "to", SP, "be", SP, "performed.">>
AlreadyUpToDate == <<"Stack", SP, "is", SP, "already", SP, "up-to-date.">>
EmptyResultMsg == <<"empty", SP, "result">>
KeyErrorMsg == <<"stack_outputs">>
AttributeErrorMsg ==
    <<"'NoneType'", SP, "object", SP, "has", SP, "no", SP, "attribute", SP, "'get'">>

\* Where main goes on from a position: [pc, result, exit].
Goto(p, res) == [pc |-> p, result |-> res, exit |-> NotExited]
Stop(res, how) == [pc |-> "done", result |-> res, exit |-> how]

\* The except clause of lines 419-424, entered with `result` still res.
update_except(err, res) ==
    IF Contains(NoUpdates, boto_exception(err))
    THEN Goto("post", [changed |-> FALSE, output |-> AlreadyUpToDate])
    ELSE Stop(res, fail_json(boto_exception(err)))

\* check_result sending a failed result to exit_json without the post-operation
\* calls.
check_result_skip_failed(res) ==
    IF Falsy(res) THEN Stop(res, fail_json(EmptyResultMsg))
    ELSE IF DictGet(res, "failed", FALSE) THEN Goto("exit", res)
    ELSE Goto("post", res)

\* Lines 410 and 427.
check_result(res) ==
    IF Falsy(res) THEN Stop(res, fail_json(EmptyResultMsg)) ELSE Goto("post", res)

\* after_stack_operation with the test of line 412 taken as true after a
\* CREATE, as if stack_info were fetched again.
after_stack_operation_then_update(op, step, res) ==
    IF step.kind = "return"
    THEN IF op = "DELETE" THEN Goto("exit", step.ret)
         ELSE IF op = "CREATE" THEN Goto("update", step.ret)
         ELSE check_result(step.ret)
    ELSE IF op = "CREATE" THEN Stop(res, Unhandled(step.err))
    ELSE IF op = "UPDATE" THEN update_except(step.err, res)
    ELSE Stop(res, fail_json(boto_exception(step.err)))

\* The call sites of stack_operation (lines 409, 418, 461) once the loop
\* has ended with step; res is main's `result` before the call.
after_stack_operation(op, step, res) ==
    IF step.kind = "return"
    THEN IF op = "DELETE" THEN Goto("exit", step.ret) ELSE check_result(step.ret)
    ELSE IF op = "CREATE" THEN Stop(res, Unhandled(step.err))
    ELSE IF op = "UPDATE" THEN update_except(step.err, res)
    ELSE Stop(res, fail_json(boto_exception(step.err)))

\* Lines 438-446.
resource_summary(res) ==
    [logical_resource_id |-> res.LogicalResourceId,
     physical_resource_id |-> res.PhysicalResourceId,
     resource_type |-> res.ResourceType,
     last_updated_time |-> res.LastUpdatedTimestamp,
     status |-> res.ResourceStatus,
     status_reason |-> DictGet(res, "ResourceStatusReason", NoneVal)]

stack_resources(reslist) ==
    LET rs == DictGet(reslist, "StackResourceSummaries", <<>>)
    IN  [i \in 1..Len(rs) |-> resource_summary(rs[i])]

InitMain ==
    /\ pc = "main_facts"
    /\ state \in {"present", "absent"}
    /\ stack_info = NoneVal
    /\ stack = NoneVal
    /\ result = EmptyDict
    /\ operation = "NONE"
    /\ existed = <<>>
    /\ observed = <<>>
    /\ fetches = 0
    /\ sleeps = 0
    /\ ended = [kind |-> "none"]
    /\ slept = 0
    /\ submitted = <<>>
    /\ listed = FALSE
    /\ exit = NotExited
    /\ remote = Untracked

IdleEvents ==
    /\ evIn = Return([StackEvents |-> <<>>])
    /\ evOut = [kind |-> "idle"]

IdleRetry ==
    /\ rScript = <<>>
    /\ rPc = "idle"
    /\ retries = 0
    /\ rAttempts = 0
    /\ rSleeps = 0
    /\ rOut = [kind |-> "idle"]

IdleFacts ==
    /\ factsIn = Return([Stacks |-> <<>>])
    /\ factsOut = [kind |-> "idle"]

Init == InitMain /\ IdleEvents /\ IdleFacts /\ IdleRetry

\* Line 395, and the choice between the three branches of main.
MainGetStackFacts ==
    /\ pc = "main_facts"
    /\ \E o \in MainDescribeStacksAnswers :
          LET f == get_stack_facts(o)
          IN  IF ~f.ok
              THEN /\ pc' = "done"
                   /\ exit' = Unhandled(f.err)
                   /\ UNCHANGED stack_info
              ELSE /\ stack_info' = f.val
                   /\ pc' = IF state = "absent" THEN "absent"
                            ELSE IF Falsy(f.val) THEN "create" ELSE "update"
                   /\ UNCHANGED exit
    /\ UNCHANGED <<state, stack, result, operation, existed, observed,
                   fetches, sleeps, ended, slept, submitted, listed>>
    /\ UNCHANGED <<evVars, factsVars, retryVars, remote>>

\* Lines 399-409 up to the call of stack_operation.
CreateStack ==
    /\ pc = "create"
    /\ \E o \in CreateStackAnswers :
          IF o.ok
          THEN /\ submitted' = Append(submitted, "create_stack")
               /\ operation' = "CREATE"
               /\ pc' = "poll"
               /\ UNCHANGED exit
          ELSE /\ pc' = "done"
               /\ exit' = fail_json(boto_exception(o.err))
               /\ UNCHANGED <<submitted, operation>>
    /\ UNCHANGED <<state, stack_info, stack, result, existed, observed,
                   fetches, sleeps, ended, slept, listed>>
    /\ UNCHANGED <<evVars, factsVars, retryVars, remote>>

\* Lines 412-418 up to the call of stack_operation, and lines 419-427 when
\* update_stack raises.
UpdateStack ==
    /\ pc = "update"
    /\ \E o \in UpdateStackAnswers :
          IF o.ok
          THEN /\ submitted' = Append(submitted, "update_stack")
               /\ operation' = "UPDATE"
               /\ pc' = "poll"
               /\ UNCHANGED <<exit, result>>
          ELSE LET next == update_except(o.err, result)
               IN  /\ pc' = next.pc
                   /\ result' = next.result
                   /\ exit' = next.exit
                   /\ UNCHANGED <<submitted, operation>>
    /\ UNCHANGED <<state, stack_info, stack, existed, observed,
                   fetches, sleeps, ended, slept, listed>>
    /\ UNCHANGED <<evVars, factsVars, retryVars, remote>>

\* One pass of the loop of stack_operation (lines 246-283), and the return
\* to main when the pass ends the loop.
Poll ==
    /\ pc = "poll"
    /\ \E facts \in DescribeStacksAnswers :
       \E ev1, ev2 \in describe_stack_events(PollEventPool, MaxPollEvents) :
          LET pass == stack_operation(facts, ev1, ev2, existed, operation)
          IN  /\ existed' = pass.existed
              /\ observed' = Append(observed, Observation(facts))
              /\ fetches' = fetches + 1
              /\ IF pass.step.kind = "sleep"
                 THEN /\ pc' = "sleep"
                      /\ UNCHANGED <<result, exit, ended>>
                 ELSE LET next == after_stack_operation(operation, pass.step, result)
                      IN  /\ ended' = pass.step
                          /\ pc' = next.pc
                          /\ result' = next.result
                          /\ exit' = next.exit
    /\ UNCHANGED <<state, stack_info, stack, operation, sleeps, slept,
                   submitted, listed>>
    /\ UNCHANGED <<evVars, factsVars, retryVars, remote>>

\* Line 283.
Sleep ==
    /\ pc = "sleep"
    /\ fetches < MaxPolls
    /\ sleeps' = sleeps + 1
    /\ slept' = slept + POLL_INTERVAL
    /\ pc' = "poll"
    /\ UNCHANGED <<state, stack_info, stack, result, operation, existed,
                   observed, fetches, ended, submitted, listed, exit>>
    /\ UNCHANGED <<evVars, factsVars, retryVars, remote>>

\* Lines 432-447: state is 'present' whenever main gets here.
PostOperation ==
    /\ pc = "post"
    /\ \E o \in MainDescribeStacksAnswers : \E l \in ListStackResourcesAnswers :
          LET f == get_stack_facts(o)
          IN  IF ~f.ok
              THEN /\ pc' = "done"
                   /\ exit' = Unhandled(f.err)
                   /\ UNCHANGED <<stack, result, listed>>
              ELSE /\ stack' = f.val
                   /\ IF f.val = NoneVal
                      THEN /\ pc' = "done"
                           /\ exit' = Unhandled([cls |-> "AttributeError",
                                                 message |-> AttributeErrorMsg])
                           /\ UNCHANGED <<result, listed>>
                      ELSE IF /\ Len(DictGet(f.val, "Outputs", <<>>)) > 0
                              /\ "stack_outputs" \notin DOMAIN result
                      THEN /\ pc' = "done"
                           /\ exit' = Unhandled([cls |-> "KeyError",
                                                 message |-> KeyErrorMsg])
                           /\ UNCHANGED <<result, listed>>
                      ELSE /\ listed' = TRUE
                           /\ IF ~l.ok
                              THEN /\ pc' = "done"
                                   /\ exit' = Unhandled(l.err)
                                   /\ UNCHANGED result
                              ELSE /\ result' = DictUpdate(result,
                                          [stack_resources |-> stack_resources(l.val)])
                                   /\ pc' = "exit"
                                   /\ UNCHANGED exit
    /\ UNCHANGED <<state, stack_info, operation, existed, observed,
                   fetches, sleeps, ended, slept, submitted>>
    /\ UNCHANGED <<evVars, factsVars, retryVars, remote>>

\* Lines 453-463 up to the call of stack_operation.
AbsentState ==
    /\ pc = "absent"
    /\ \E o \in MainDescribeStacksAnswers : \E d \in DeleteStackAnswers :
          LET f == get_stack_facts(o)
          IN  IF ~f.ok
              THEN /\ pc' = "done"
                   /\ exit' = fail_json(boto_exception(f.err))
                   /\ UNCHANGED <<stack, result, submitted, operation>>
              ELSE /\ stack' = f.val
                   /\ IF Falsy(f.val)
                      THEN /\ result' = [changed |-> FALSE, output |-> StackNotFound]
                           /\ pc' = "exit"
                           /\ UNCHANGED <<exit, submitted, operation>>
                      ELSE IF ~d.ok
                      THEN /\ pc' = "done"
                           /\ exit' = fail_json(boto_exception(d.err))
                           /\ UNCHANGED <<result, submitted, operation>>
                      ELSE /\ submitted' = Append(submitted, "delete_stack")
                           /\ operation' = "DELETE"
                           /\ pc' = "poll"
                           /\ UNCHANGED <<exit, result>>
    /\ UNCHANGED <<state, stack_info, existed, observed, fetches, sleeps, ended, slept,
                   listed>>
    /\ UNCHANGED <<evVars, factsVars, retryVars, remote>>

\* Line 465.
ExitJson ==
    /\ pc = "exit"
    /\ exit' = exit_json(result)
    /\ pc' = "done"
    /\ UNCHANGED <<state, stack_info, stack, result, operation, existed,
                   observed, fetches, sleeps, ended, slept, submitted, listed>>
    /\ UNCHANGED <<evVars, factsVars, retryVars, remote>>

Next ==
    \/ MainGetStackFacts
    \/ CreateStack
    \/ UpdateStack
    \/ Poll
    \/ Sleep
    \/ PostOperation
    \/ AbsentState
    \/ ExitJson

Spec == Init /\ [][Next]_vars

-----------------------------------------------------------------------------
(* get_stack_events on its own: any timeline of up to MaxEvents events *)

MainIdle ==
    /\ pc = "idle"
    /\ state = "present"
    /\ stack_info = NoneVal
    /\ stack = NoneVal
    /\ result = EmptyDict
    /\ operation = "NONE"
    /\ existed = <<>>
    /\ observed = <<>>
    /\ fetches = 0
    /\ sleeps = 0
    /\ ended = [kind |-> "none"]
    /\ slept = 0
    /\ submitted = <<>>
    /\ listed = FALSE
    /\ exit = NotExited
    /\ remote = Untracked

InitEvents ==
    /\ MainIdle /\ IdleFacts /\ IdleRetry
    /\ evIn \in describe_stack_events(EventPool, MaxEvents)
    /\ evOut = [kind |-> "idle"]

CollectEvents ==
    /\ evOut.kind = "idle"
    /\ evOut' = [kind |-> "done", out |-> get_stack_events(evIn)]
    /\ UNCHANGED <<evIn, mainVars, factsVars, retryVars>>

NextEvents == CollectEvents

SpecEvents == InitEvents /\ [][NextEvents]_vars

-----------------------------------------------------------------------------
(* get_stack_facts on its own: any answer of describe_stacks *)

ServiceMessages == {NotExistMsg, ThrottlingMsg, AccessDeniedMsg, NoUpdatesMsg, AlreadyExistsMsg}

\* What the client raises: a ClientError carrying the service's message, or
\* one of its own errors with its own message.
RemoteErrors ==
    { Raise("ClientError", m) : m \in ServiceMessages } \cup Faults

StackRecords == { StackRecord(st, outs) : st \in StackStatuses, outs \in OutputLists }

InitFacts ==
    /\ MainIdle /\ IdleEvents /\ IdleRetry
    /\ factsIn \in RemoteErrors
                   \cup { Return([Stacks |-> recs]) : recs \in SeqsUpTo(StackRecords, MaxStacks) }
    /\ factsOut = [kind |-> "idle"]

FetchFacts ==
    /\ factsOut.kind = "idle"
    /\ factsOut' = [kind |-> "done", out |-> get_stack_facts(factsIn)]
    /\ UNCHANGED <<factsIn, mainVars, evVars, retryVars>>

NextFacts == FetchFacts

SpecFacts == InitFacts /\ [][NextFacts]_vars

-----------------------------------------------------------------------------
(* invoke_with_throttling_retries, lines 311-324 *)

IGNORE_CODE == "Throttling"

RaiseCode(code, m) ==
    [ok |-> FALSE, err |-> [cls |-> "ClientError", code |-> code, message |-> m]]

\* What one call of function_ref can end with.
CallOutcomes ==
    { Return("retval"), Return("other"),
      RaiseCode(IGNORE_CODE, ThrottlingMsg),
      RaiseCode("ValidationError", NotExistMsg) }

InitRetry ==
    /\ MainIdle /\ IdleEvents /\ IdleFacts
    /\ rScript \in SeqsUpTo(CallOutcomes, MaxScript) \ {<<>>}
    /\ rPc = "call"
    /\ retries = 0
    /\ rAttempts = 0
    /\ rSleeps = 0
    /\ rOut = [kind |-> "idle"]

\* One pass of the while loop, lines 315-324. The except clause raises
\* whatever the exception is (its test is commented out, line 321), so the
\* sleep and the increment of lines 323-324 are never reached.
Invoke ==
    /\ rPc = "call"
    /\ rAttempts < Len(rScript)
    /\ LET o == rScript[rAttempts + 1]
       IN  /\ rAttempts' = rAttempts + 1
           /\ rOut' = o
           /\ rPc' = IF o.ok THEN "returned" ELSE "raised"
    /\ UNCHANGED <<rScript, retries, rSleeps, mainVars, evVars, factsVars>>

NextRetry == Invoke

SpecRetry == InitRetry /\ [][NextRetry]_vars

-----------------------------------------------------------------------------
(* stack_operation on its own, running for as long as the remote makes it *)

REVIEW_IN_PROGRESS == <<"REVIEW", U, "IN", U, "PROGRESS">>

\* The states of the remote stack: those of RemoteStates, and the status of a
\* stack made by a change set, which keeps it until the change set is executed.
LiveStates == RemoteStates \cup {REVIEW_IN_PROGRESS}

\* `existed` is read only by the test 'yes' in existed (lines 251 and 259):
\* the list is kept up to what that test reads, so that the loop can run
\* without end in a finite state space.
Seen(ex) == IF InList("yes", ex) THEN <<"yes">> ELSE <<>>

\* stack_operation is called with any operation, the remote stack being in
\* any state by the time of the first pass.
InitLive ==
    /\ IdleEvents /\ IdleFacts /\ IdleRetry
    /\ pc = "poll"
    /\ operation \in Operations
    /\ state = IF operation = "DELETE" THEN "absent" ELSE "present"
    /\ stack_info = NoneVal
    /\ stack = NoneVal
    /\ result = EmptyDict
    /\ existed = <<>>
    /\ observed = <<>>
    /\ fetches = 0
    /\ sleeps = 0
    /\ ended = [kind |-> "none"]
    /\ slept = 0
    /\ submitted = <<>>
    /\ listed = FALSE
    /\ exit = NotExited
    /\ remote \in LiveStates

\* The control plane, or another of its clients, moves the stack on.
RemoteStep ==
    /\ pc # "done"
    /\ \E r \in LiveStates \ {remote} : remote' = r
    /\ UNCHANGED <<pc, state, stack_info, stack, result, operation, existed, observed,
                   fetches, sleeps, ended, slept, submitted, listed, exit>>
    /\ UNCHANGED <<evVars, factsVars, retryVars>>

\* One pass of the loop of lines 246-283 against the remote stack as it is.
\* The pass counters of the bounded specification are left alone.
PollLive ==
    /\ pc = "poll"
    /\ \E facts \in describe_stacks(remote) :
       \E ev1, ev2 \in describe_stack_events(PollEventPool, MaxPollEvents) :
          LET pass == stack_operation(facts, ev1, ev2, existed, operation)
          IN  /\ existed' = Seen(pass.existed)
              /\ IF pass.step.kind = "sleep"
                 THEN /\ pc' = "sleep"
                      /\ UNCHANGED ended
                 ELSE /\ pc' = "done"
                      /\ ended' = pass.step
    /\ UNCHANGED <<state, stack_info, stack, result, operation, observed,
                   fetches, sleeps, slept, submitted, listed, exit, remote>>
    /\ UNCHANGED <<evVars, factsVars, retryVars>>

\* Line 283.
SleepLive ==
    /\ pc = "sleep"
    /\ pc' = "poll"
    /\ UNCHANGED <<state, stack_info, stack, result, operation, existed, observed,
                   fetches, sleeps, ended, slept, submitted, listed, exit, remote>>
    /\ UNCHANGED <<evVars, factsVars, retryVars>>

NextLive ==
    \/ RemoteStep
    \/ PollLive
    \/ SleepLive

\* The loop is the program's only thread: a remote call that answers and a
\* sleep that is over are followed by the next statement.
SpecLive == InitLive /\ [][NextLive]_vars /\ WF_vars(PollLive) /\ WF_vars(SleepLive)

-----------------------------------------------------------------------------
(* The claims *)

LastSeen == observed[Len(observed)]

IN_PROGRESS_SUFFIX == <<U, "IN", U, "PROGRESS">>
InProgress(s) == EndsWith(s, IN_PROGRESS_SUFFIX)

Failed(r) == DictGet(r, "failed", FALSE)

Polling == pc \in {"poll", "sleep"}

\* C1: whatever the operation, a pass of stack_operation that sees a status
\* ending in _ROLLBACK_COMPLETE (and whose event fetch does not raise) ends
\* the loop on that pass with changed and failed set and a message that names
\* a rollback, which is neither the 'complete' nor the 'failed' message.
C1_RollbackComplete ==
    (/\ fetches > 0
     /\ EndsWith(LastSeen, ROLLBACK_COMPLETE_SUFFIX)
     /\ ended.kind # "raise")
    => /\ ~Polling
       /\ ended.kind = "return"
       /\ ended.ret.changed = TRUE
       /\ Failed(ended.ret)
       /\ Contains(<<"Rollback">>, ended.ret.output)
       /\ ended.ret.output # CompleteMsg(operation)
       /\ ended.ret.output # FailedMsg(operation)

C1_Witness ==
    /\ operation = "UPDATE"
    /\ observed = <<UPDATE_ROLLBACK_IN_PROGRESS, UPDATE_ROLLBACK_COMPLETE>>
    /\ ended.kind = "return"
    /\ Failed(ended.ret)

\* C2: whatever the operation, a pass of stack_operation that sees a status
\* ending in _ROLLBACK_FAILED (and whose event fetch does not raise) ends the
\* loop on that pass with changed and failed set and the 'rollback failed'
\* message, not the plain 'failed' one.
C2_RollbackFailed ==
    (/\ fetches > 0
     /\ EndsWith(LastSeen, ROLLBACK_FAILED_SUFFIX)
     /\ ended.kind # "raise")
    => /\ ~Polling
       /\ ended.kind = "return"
       /\ ended.ret.changed = TRUE
       /\ Failed(ended.ret)
       /\ ended.ret.output = RollbackFailedMsg(operation)
       /\ ended.ret.output # FailedMsg(operation)

C2_Witness ==
    /\ operation = "UPDATE"
    /\ observed = <<UPDATE_ROLLBACK_IN_PROGRESS, UPDATE_ROLLBACK_FAILED>>
    /\ ended.kind = "return"
    /\ ended.ret.output = RollbackFailedMsg("UPDATE")

\* C3: a DELETE whose first pass finds the stack absent (get_stack_facts
\* returns None) returns 'Stack Deleted' with changed set and failed not set,
\* never a 'not found' result, and main exits with that result.
C3_DeleteAbsentFirstPoll ==
    (/\ operation = "DELETE"
     /\ observed = <<Absent>>
     /\ ended.kind # "raise")
    => /\ ~Polling
       /\ ended.kind = "return"
       /\ ended.ret.output = StackDeleted
       /\ ended.ret.output \notin {StackNotFound, StackNotFoundRaised}
       /\ ended.ret.changed = TRUE
       /\ ~Failed(ended.ret)
       /\ pc = "done" => exit = exit_json(ended.ret)

C3_Witness ==
    /\ operation = "DELETE"
    /\ observed = <<Absent>>
    /\ ended.kind = "return"
    /\ pc = "done"
    /\ exit.kind = "exit_json"

\* C4: a CREATE or UPDATE whose first pass finds the stack absent returns a
\* 'not found' result, not 'Stack Deleted'.
C4_NotFoundOnFirstAbsent ==
    (/\ operation \in {"CREATE", "UPDATE"}
     /\ observed = <<Absent>>
     /\ ended.kind # "raise")
    => /\ ended.kind = "return"
       /\ ended.ret.output \in {StackNotFound, StackNotFoundRaised}
       /\ ended.ret.output # StackDeleted

\* C5: when the passes see k in-progress statuses and then a status ending in
\* _COMPLETE that is no rollback status (and the last event fetch does not
\* raise), stack_operation has made k+1 stack fetches and k sleeps of
\* POLL_INTERVAL each, polls no more, and returns changed, not failed,
\* 'Stack <operation> complete'.
C5_PollsAndSleeps ==
    (/\ fetches > 0
     /\ EndsWith(LastSeen, COMPLETE_SUFFIX)
     /\ ~Contains(<<"ROLLBACK">>, LastSeen)
     /\ \A i \in 1..(Len(observed) - 1) : InProgress(observed[i])
     /\ ended.kind # "raise")
    => /\ ~Polling
       /\ ended.kind = "return"
       /\ fetches = Len(observed)
       /\ sleeps = Len(observed) - 1
       /\ slept = POLL_INTERVAL * (Len(observed) - 1)
       /\ ended.ret.changed = TRUE
       /\ ~Failed(ended.ret)
       /\ ended.ret.output = CompleteMsg(operation)

C5_Witness ==
    /\ operation = "CREATE"
    /\ observed = <<CREATE_IN_PROGRESS, CREATE_IN_PROGRESS, CREATE_COMPLETE>>
    /\ sleeps = 2
    /\ ended.kind = "return"
    /\ ended.ret.output = CompleteMsg("CREATE")

NoOpUpdate == "output" \in DOMAIN result /\ result.output = AlreadyUpToDate

\* C6: when update_stack is rejected with 'No updates are to be performed.',
\* and the calls that follow reach the remote and find the stack, main ends
\* with exit_json, changed false and failed not set, without a single pass of
\* stack_operation, and without fail_json.
C6_NoOpUpdate ==
    (/\ pc = "done"
     /\ NoOpUpdate
     /\ stack # NoneVal
     /\ ~(exit.kind = "exception" /\ exit.err.cls \in RemoteErrorClasses))
    => /\ exit.kind = "exit_json"
       /\ exit.args.changed = FALSE
       /\ ~Failed(exit.args)
       /\ fetches = 0
       /\ ended.kind = "none"

Transient(o) == ~o.ok /\ o.err.code = IGNORE_CODE

\* C7: invoke_with_throttling_retries returns the value of the third call
\* when the first two fail with Throttling; makes exactly MAX_RETRIES calls
\* and raises when every call fails with Throttling; raises after one call
\* and no sleep when the first call fails with another error.
C7_RetryWrapper ==
    rPc \in {"returned", "raised"}
    => /\ (/\ Len(rScript) >= 3
           /\ Transient(rScript[1]) /\ Transient(rScript[2]) /\ rScript[3].ok)
          => (rPc = "returned" /\ rOut = rScript[3] /\ rAttempts = 3)
       /\ (/\ Len(rScript) >= MAX_RETRIES
           /\ \A i \in 1..MAX_RETRIES : Transient(rScript[i]))
          => (rPc = "raised" /\ rAttempts = MAX_RETRIES)
       /\ (~rScript[1].ok /\ ~Transient(rScript[1]))
          => (rPc = "raised" /\ rOut = rScript[1] /\ rAttempts = 1 /\ rSleeps = 0)

\* C8: for every timeline describe_stack_events returns, get_stack_events
\* gives one 'StackEvent <type> <id> <status>' line per event in the remote's
\* order, and one log line per event whose status ends with FAILED, in the
\* same relative order, each holding that event's id and reason.
C8_EventsAndFailures ==
    (evOut.kind = "done" /\ evIn.ok)
    => LET evs == evIn.val.StackEvents
           F == { i \in 1..Len(evs) : EndsWith(evs[i].ResourceStatus, <<"FAILED">>) }
           nth(j) == CHOOSE i \in F : Cardinality({ k \in F : k <= i }) = j
       IN  /\ evOut.out.ok
           /\ Len(evOut.out.val.events) = Len(evs)
           /\ \A i \in 1..Len(evs) :
                 evOut.out.val.events[i] =
                     <<"StackEvent", SP, evs[i].ResourceType, SP,
                       evs[i].LogicalResourceId, SP>> \o evs[i].ResourceStatus
           /\ Len(evOut.out.val.log) = Cardinality(F)
           /\ \A j \in 1..Cardinality(F) :
                 /\ Contains(evs[nth(j)].ResourceStatusReason, evOut.out.val.log[j])
                 /\ Contains(<<evs[nth(j)].LogicalResourceId>>, evOut.out.val.log[j])

C8_Witness ==
    /\ evOut.kind = "done"
    /\ evIn = Return([StackEvents |-> <<Event1, Event3, Event4>>])
    /\ Len(evOut.out.val.events) = 3
    /\ Len(evOut.out.val.log) = 1
    /\ Contains(Reason2, evOut.out.val.log[1])

\* C9: when the stack fetch of a pass fails with a remote error other than
\* 'does not exist', stack_operation ends by raising that error.
C9_FetchErrorPropagates ==
    \A c \in RemoteErrorClasses :
        (fetches > 0 /\ LastSeen = FetchError(c))
        => (ended.kind = "raise" /\ ended.err.cls = c)

\* C10: get_stack_facts returns None exactly when describe_stacks failed with
\* an error whose message contains 'does not exist', and raises every other
\* error of describe_stacks as it got it.
C10_AbsentOnlyForDoesNotExist ==
    factsOut.kind = "done"
    => /\ (factsOut.out = Return(NoneVal))
          <=> (~factsIn.ok /\ Contains(DoesNotExist, factsIn.err.message))
       /\ (~factsIn.ok /\ ~Contains(DoesNotExist, factsIn.err.message))
          => factsOut.out = factsIn

C10_Witness ==
    /\ factsOut.kind = "done"
    /\ factsIn = Raise("ClientError", NotExistMsg)
    /\ factsOut.out = Return(NoneVal)

\* C11: when describe_stacks succeeds, get_stack_facts returns None for a
\* response without stack records and raises nothing, and returns the first
\* record of a response that has one or more.
C11_ZeroRecordsAbsent ==
    (factsOut.kind = "done" /\ factsIn.ok)
    => IF Len(factsIn.val.Stacks) = 0
       THEN factsOut.out = Return(NoneVal)
       ELSE factsOut.out = Return(factsIn.val.Stacks[1])

MissingStackError(o) ==
    ~o.ok /\ o.err.cls \in CaughtClasses /\ Contains(DoesNotExist, o.err.message)

\* C12 as stated: when describe_stack_events fails with a 'does not exist'
\* error, get_stack_events raises nothing and returns an empty events list
\* and an empty log.
C12_DoesNotExistEmpty ==
    (evOut.kind = "done" /\ MissingStackError(evIn))
    => /\ evOut.out.ok
       /\ evOut.out.val.events = <<>>
       /\ evOut.out.val.log = <<>>

\* C12: when describe_stack_events fails with a 'does not exist' error,
\* get_stack_events raises nothing and returns an empty events list and a log
\* holding the one entry 'Stack does not exist.'.
C12_DoesNotExistLogged ==
    (evOut.kind = "done" /\ MissingStackError(evIn))
    => /\ evOut.out.ok
       /\ DOMAIN evOut.out.val = {"events", "log"}
       /\ evOut.out.val.events = <<>>
       /\ evOut.out.val.log = <<StackDoesNotExistLog>>

C12_Witness ==
    /\ evOut.kind = "done"
    /\ evIn = Raise("ClientError", NotExistMsg)
    /\ evOut.out.ok
    /\ Len(evOut.out.val.log) = 1

Verdict(r) == [changed |-> r.changed, failed |-> Failed(r), output |-> r.output]

NoEvents == [events |-> <<>>, log |-> <<>>]

\* C13: no error of describe_stack_events makes stack_operation end with an
\* exception (a stack fetch that raises is caught at line 250, so an exception
\* that leaves stack_operation comes from an event fetch), and the changed,
\* failed and output values returned for a status are those the status alone
\* decides, whatever the event fetches answered.
C13_EventErrorsNeverAbort ==
    /\ ended.kind # "raise"
    /\ (ended.kind = "return" /\ LastSeen \in StackStatuses)
       => Verdict(ended.ret)
            = Verdict(classify([StackStatus |-> LastSeen], operation, NoEvents).ret)

Recognised(s) == EndsWith(s, COMPLETE_SUFFIX) \/ EndsWith(s, FAILED_SUFFIX)

\* C14: when the remote stack keeps for ever a status that ends in neither
\* _COMPLETE nor _FAILED, stack_operation eventually ends.
C14_UnrecognisedEnds ==
    \A s \in LiveStates \ {Absent} :
        ~Recognised(s) => (<>[](remote = s) => <>(ended.kind # "none"))

PostCalls == pc = "post" \/ listed \/ "stack_resources" \in DOMAIN result

OperationReturned == operation \in {"CREATE", "UPDATE"} /\ ended.kind = "return"

StackOutputs == IF stack = NoneVal THEN <<>> ELSE DictGet(stack, "Outputs", <<>>)

\* C16: after a CREATE or UPDATE that returned a result that is not failed,
\* when the post-operation fetch finds the stack with one or more outputs (and
\* no remote call of main fails), main ends with exit_json and the result's
\* stack_outputs maps every output key of the stack to its value.
C16_OutputsInResult ==
    (/\ pc = "done"
     /\ OperationReturned /\ ~Failed(ended.ret)
     /\ Len(StackOutputs) > 0
     /\ ~(exit.kind = "exception" /\ exit.err.cls \in RemoteErrorClasses))
    => /\ exit.kind = "exit_json"
       /\ "stack_outputs" \in DOMAIN exit.args
       /\ \A i \in 1..Len(StackOutputs) :
             /\ StackOutputs[i].OutputKey \in DOMAIN exit.args.stack_outputs
             /\ exit.args.stack_outputs[StackOutputs[i].OutputKey]
                  = StackOutputs[i].OutputValue

\* C17: every result stack_operation returns holds the events list and the
\* log of a get_stack_events call, and an output message; its failed flag is
\* read as the caller reads it, a missing key standing for false.
C17_ResultCarriesEvents ==
    ended.kind = "return"
    => /\ {"events", "log", "output"} \subseteq DOMAIN ended.ret
       /\ Failed(ended.ret) \in BOOLEAN

\* C18: a run submits one mutating call at most, and never create_stack and
\* update_stack both: create_stack only with state present and no stack at
\* line 395, update_stack only with state present and a stack at line 395,
\* delete_stack only with state absent and a stack at line 456. With state
\* absent and no stack at line 456 it submits nothing, makes no pass of
\* stack_operation and exits with changed false.
C18_OneMutatingCall ==
    /\ Len(submitted) <= 1
    /\ ~(InList("create_stack", submitted) /\ InList("update_stack", submitted))
    /\ InList("create_stack", submitted) => (state = "present" /\ Falsy(stack_info))
    /\ InList("update_stack", submitted) => (state = "present" /\ ~Falsy(stack_info))
    /\ InList("delete_stack", submitted) => (state = "absent" /\ ~Falsy(stack))
    /\ (/\ state = "absent"
        /\ pc \in {"exit", "done"}
        /\ exit.kind \notin {"fail_json", "exception"}
        /\ stack = NoneVal)
       => /\ submitted = <<>>
          /\ fetches = 0
          /\ result = [changed |-> FALSE, output |-> StackNotFound]
          /\ pc = "done" => exit = exit_json(result)

C18_Witness ==
    /\ submitted = <<"create_stack">>
    /\ ended.kind = "return"
    /\ pc = "done"
    /\ exit.kind = "exit_json"

Settled(s) == s = Absent \/ Recognised(s)

\* C19: when the remote stack from some time on is absent or in a status
\* ending in _COMPLETE or _FAILED, and no event fetch raises an error that
\* get_stack_events lets through, stack_operation eventually returns; and a
\* pass made while the stack is in such a state ends the loop: no stack fetch
\* and no sleep follows it.
C19_ReturnsOnSettled ==
    /\ (<>[]Settled(remote) /\ [](ended.kind # "raise")) => <>(ended.kind = "return")
    /\ [][(pc = "poll" /\ pc' # "poll" /\ Settled(remote))
          => (pc' = "done" /\ ended'.kind # "none")]_vars

C19_Witness ==
    /\ operation = "CREATE"
    /\ remote = CREATE_COMPLETE
    /\ existed = <<"yes">>
    /\ pc = "done"
    /\ ended.kind = "return"
    /\ ended.ret.output = CompleteMsg("CREATE")

\* C20: every result stack_operation returns has changed set to true,
\* whatever the operation and whatever the passes saw.
C20_AlwaysChanged ==
    ended.kind = "return"
    => ("changed" \in DOMAIN ended.ret /\ ended.ret.changed = TRUE)

C20_Witness ==
    /\ operation = "UPDATE"
    /\ observed = <<UPDATE_ROLLBACK_IN_PROGRESS, Absent>>
    /\ ended.kind = "return"
    /\ ended.ret.changed = TRUE
    /\ ended.ret.output = StackDeleted

RollbackOutcome(s) == Contains(<<"ROLLBACK">>, s) /\ Recognised(s)

RollbackMessage(m) == Contains(<<"Rollback">>, m) \/ Contains(<<"rollback">>, m)

\* C21: a result stack_operation returns on a rollback status that ends in
\* _COMPLETE or _FAILED, ROLLBACK_COMPLETE and ROLLBACK_FAILED included, has
\* failed set and a message that names the rollback, and is never the
\* 'Stack <operation> complete' result.
C21_RollbackIsFailed ==
    (/\ fetches > 0
     /\ RollbackOutcome(LastSeen)
     /\ ended.kind = "return")
    => /\ Failed(ended.ret)
       /\ RollbackMessage(ended.ret.output)
       /\ ended.ret.output # CompleteMsg(operation)

====
